---- MODULE Spec2Model ----
(***************************************************************************)
(* Cash-flow projection and transfer advisory engine of finance-sim        *)
(* (src/src/simulator.py).                                                 *)
(*                                                                         *)
(* Money is counted in fifths of a cent (0.002), so that amounts below a    *)
(* cent exist and the two-decimal formatting rounds.  A calendar date is   *)
(* the number of days since 2022-12-31 (day 1 is 2023-01-01); the calendar *)
(* month of a date is computed from the Gregorian month lengths.           *)
(* A data frame is a sequence of records, in row order.                    *)
(***************************************************************************)
EXTENDS Integers, Sequences, FiniteSets, TLC

VARIABLES
    call,                 \* which entry point the caller invoked
    args,                 \* the caller's arguments (the caller's own objects)
    pc,                   \* position inside the call
    transactions_df,      \* generate_simulation_report: local copy of the ledger
    sim_results_df,       \* generate_simulation_report: current projection
    i,                    \* generate_simulation_report: index of the scan loop
    recommended_transfer, \* generate_simulation_report: current recommendation
    advisor,              \* frame of the last calculate_intelligent_transfer call
    returned,             \* value handed back to the caller (valid when pc = "done")
    days_computed,        \* rows the last engine run had appended when it ended
    engine_runs,          \* run_simulation_engine calls made by this invocation
    calls,                \* invocations the caller has made so far
    first_return          \* outcome of the caller's first invocation

vars == <<call, args, pc, transactions_df, sim_results_df, i,
          recommended_transfer, advisor, returned, days_computed,
          engine_runs, calls, first_return>>

-----------------------------------------------------------------------------
(* Bounds of the model *)

MaxTx == 2
ShortWindow == 3
MaxWindow == 33
MaxBalance == 4
MaxFuture == 2

(* simulator.py line 166: look ahead 30 days *)
LookAheadLimit == 30

StartBalances == {2, 4}
TargetBalances == {2}
\* 2023-01-30 and 2023-02-01
StartDates == {30, 32}
\* 2023-01-31, 2023-02-01, 2023-03-01
TxDates == {31, 32, 60}
Amounts == {-3, 2}
Descriptions == {"Paycheck"}
WindowDays == (0..ShortWindow) \cup {MaxWindow - 2, MaxWindow}

\* ledger rows as the loader yields them: the amount is text
Transactions ==
    [date : TxDates, amount : Amounts, amount_dtype : {"str"},
     description : Descriptions, category : {"Fixed"}, forecast : {"1"}]

\* 2023-02-01: a row whose amount text is not a number
MalformedTxDates == {32}

MalformedTransactions ==
    [date : MalformedTxDates, amount : {0}, amount_dtype : {"malformed"},
     description : Descriptions, category : {"Fixed"}, forecast : {"1"}]

SeqsUpTo(S, n) == UNION {[1..k -> S] : k \in 0..n}

-----------------------------------------------------------------------------
(* Helpers *)

Max(a, b) == IF a >= b THEN a ELSE b

Abs(x) == IF x < 0 THEN -x ELSE x

\* Series.min()
RECURSIVE SeriesMin(_)
SeriesMin(s) ==
    IF Len(s) = 1 THEN Head(s)
    ELSE LET m == SeriesMin(Tail(s)) IN IF Head(s) <= m THEN Head(s) ELSE m

(* datetime.date: month lengths and the month of a day number *)
IsLeap(y) == (y % 4 = 0 /\ y % 100 # 0) \/ y % 400 = 0

DaysInMonth(y, m) ==
    IF m = 2 THEN (IF IsLeap(y) THEN 29 ELSE 28)
    ELSE IF m \in {4, 6, 9, 11} THEN 30 ELSE 31

RECURSIVE MonthFrom(_, _, _)
MonthFrom(y, m, d) ==
    IF d <= DaysInMonth(y, m) THEN m
    ELSE IF m = 12 THEN MonthFrom(y + 1, 1, d - DaysInMonth(y, m))
    ELSE MonthFrom(y, m + 1, d - DaysInMonth(y, m))

\* date.month
MonthOf(d) == MonthFrom(2023, 1, d)

RECURSIVE DayFrom(_, _, _)
DayFrom(y, m, d) ==
    IF d <= DaysInMonth(y, m) THEN d
    ELSE IF m = 12 THEN DayFrom(y + 1, 1, d - DaysInMonth(y, m))
    ELSE DayFrom(y, m + 1, d - DaysInMonth(y, m))

\* date.day
DayOf(d) == DayFrom(2023, 1, d)

\* date.replace(day=1)
ReplaceDay1(d) == d - DayOf(d) + 1

\* start_date + timedelta(days=day_offset)
CurrentDate(sd, day_offset) == sd + day_offset

\* f"{x:.2f}": sign, whole part and two decimal digits of x rounded to the
\* nearest cent (x counts fifths of a cent, so no tie arises); a negative
\* value keeps its sign even when it rounds to zero
Format2f(x) ==
    LET rounded == (Abs(x) + 2) \div 5
    IN [negative |-> x < 0, whole |-> rounded \div 100, cents |-> rounded % 100]

\* cli.py: re.search(r'SYSTEM: Add funds \(([0-9.]+)\)') and float(): the
\* number read back from a formatted amount, in fifths of a cent
ParseAmount(text) == 5 * (100 * text.whole + text.cents)

\* cli.py: the pattern [0-9.]+ accepts no sign
PatternMatches(text) == ~text.negative

\* cli.py: the date printed for the virtual transfer,
\* (start_date.replace(day=1) + timedelta(days=32)).replace(day=1)
PrintedTransferDate(start_date) == ReplaceDay1(ReplaceDay1(start_date) + 32)

-----------------------------------------------------------------------------
(* run_simulation_engine *)

\* variant: every transaction dated up to the current day is selected
DayTransactions_upto(df, current_date) ==
    SelectSeq(df, LAMBDA tx : tx.date <= current_date)

\* transactions_df[transactions_df['date'].dt.date == current_date]
DayTransactions(df, current_date) ==
    SelectSeq(df, LAMBDA tx : tx.date = current_date)

\* pd.to_numeric raises ValueError on text that is not a number
ToNumericRaises(df) == \E k \in 1..Len(df) : df[k].amount_dtype = "malformed"

\* pd.to_numeric: the amounts become numbers
ToNumeric(df) == [k \in 1..Len(df) |-> [df[k] EXCEPT !.amount_dtype = "float"]]

RECURSIVE SumAmounts(_)
SumAmounts(txs) ==
    IF txs = <<>> THEN 0 ELSE Head(txs).amount + SumAmounts(Tail(txs))

DayNetChange(day_transactions) ==
    IF day_transactions = <<>> THEN 0 ELSE SumAmounts(day_transactions)

\* the fragments "<description>: <amount>" in row order, joined by ", "
SummaryParts(day_transactions) ==
    [k \in 1..Len(day_transactions) |->
        [kind |-> "tx",
         description |-> day_transactions[k].description,
         amount |-> Format2f(day_transactions[k].amount)]]

\* variant: the shortfall is taken with the wrong sign
SystemNote_negated(shortfall) ==
    [kind |-> "system", description |-> "SYSTEM: Add funds",
     amount |-> Format2f(-shortfall)]

\* "SYSTEM: Add funds (<shortfall>)"
SystemNote(shortfall) ==
    [kind |-> "system", description |-> "SYSTEM: Add funds",
     amount |-> Format2f(shortfall)]

\* variant: the net change is subtracted
DayEndBalance_minus(day_start_balance, day_net_change) ==
    day_start_balance - day_net_change

DayEndBalance(day_start_balance, day_net_change) ==
    day_start_balance + day_net_change

\* variant: a balance equal to the target alerts too
AlertType_inclusive(day_end_balance, tb) ==
    IF day_end_balance <= tb THEN "BELOW_TARGET" ELSE "OK"

AlertType(day_end_balance, tb) ==
    IF day_end_balance < tb THEN "BELOW_TARGET" ELSE "OK"

\* start balance of the day: the running balance
DayStartBalance(current_balance) == current_balance

\* one iteration of the day loop: the row appended to results
SimulateDay(current_balance, tb, df, current_date) ==
    LET day_start_balance == DayStartBalance(current_balance)
        day_transactions == DayTransactions(df, current_date)
        day_net_change == DayNetChange(day_transactions)
        day_end_balance == DayEndBalance(day_start_balance, day_net_change)
        alert_type == AlertType(day_end_balance, tb)
        summary == IF alert_type = "BELOW_TARGET"
                   THEN Append(SummaryParts(day_transactions),
                               SystemNote(tb - day_end_balance))
                   ELSE SummaryParts(day_transactions)
    IN [date |-> current_date,
        start_balance |-> day_start_balance,
        transactions_summary |-> summary,
        net_change |-> day_net_change,
        end_balance |-> day_end_balance,
        alert_type |-> alert_type]

\* variant: the loop runs one day too far
LoopContinues_inclusive(day_offset, wd) == day_offset <= wd

\* for day_offset in range(window_days)
LoopContinues(day_offset, wd) == day_offset < wd

\* variant: the running balance is not updated with the day's end balance
RECURSIVE EngineLoop_stale(_, _, _, _, _, _, _)
EngineLoop_stale(results, current_balance, day_offset, tb, df, sd, wd) ==
    IF LoopContinues(day_offset, wd)
    THEN LET row == SimulateDay(current_balance, tb, df,
                                CurrentDate(sd, day_offset))
         IN EngineLoop_stale(Append(results, row), row.start_balance,
                             day_offset + 1, tb, df, sd, wd)
    ELSE results

RECURSIVE EngineLoop(_, _, _, _, _, _, _)
EngineLoop(results, current_balance, day_offset, tb, df, sd, wd) ==
    IF LoopContinues(day_offset, wd)
    THEN LET row == SimulateDay(current_balance, tb, df,
                                CurrentDate(sd, day_offset))
         IN EngineLoop(Append(results, row), row.end_balance,
                       day_offset + 1, tb, df, sd, wd)
    ELSE results

run_simulation_engine(sb, tb, df, sd, wd) ==
    EngineLoop(<<>>, sb, 0, tb, df, sd, wd)

\* the day offsets at which line 50 would raise: only the rows of the
\* current day are converted
RaisingDays(df, sd, wd) ==
    {d \in 0..(wd - 1) : ToNumericRaises(DayTransactions(df, CurrentDate(sd, d)))}

EngineRaises(df, sd, wd) == RaisingDays(df, sd, wd) # {}

\* the rows appended to results before the exception leaves the loop
DaysBeforeRaise(df, sd, wd) ==
    CHOOSE d \in RaisingDays(df, sd, wd) : \A e \in RaisingDays(df, sd, wd) : d <= e

-----------------------------------------------------------------------------
(* calculate_intelligent_transfer *)

\* variant: the result is not floored at zero
calculate_intelligent_transfer_nofloor(month_end_balance, tb, future_30_day_balances) ==
    LET surplus == month_end_balance - tb IN
    IF surplus <= 0 THEN 0
    ELSE LET lowest_future_balance == SeriesMin(future_30_day_balances)
             shortfall == Max(0, tb - lowest_future_balance)
         IN surplus - shortfall

\* variant: the shortfall is taken from the first future balance only
calculate_intelligent_transfer_first(month_end_balance, tb, future_30_day_balances) ==
    LET surplus == month_end_balance - tb IN
    IF surplus <= 0 THEN 0
    ELSE LET lowest_future_balance == Head(future_30_day_balances)
             shortfall == Max(0, tb - lowest_future_balance)
         IN Max(0, surplus - shortfall)

calculate_intelligent_transfer(month_end_balance, tb, future_30_day_balances) ==
    LET surplus == month_end_balance - tb IN
    IF surplus <= 0 THEN 0
    ELSE LET lowest_future_balance == SeriesMin(future_30_day_balances)
             shortfall == Max(0, tb - lowest_future_balance)
         IN Max(0, surplus - shortfall)

-----------------------------------------------------------------------------
(* generate_simulation_report *)

\* rows are numbered from 0 as in the source: iloc[k]
Row(df, k) == df[k + 1]

\* variant: the days of the month are compared instead of the months
IsMonthBoundary_day(df, k) == Row(df, k).date # Row(df, k + 1).date

\* current_day.month != next_day.month
IsMonthBoundary(df, k) == MonthOf(Row(df, k).date) # MonthOf(Row(df, k + 1).date)

LookAheadDays(df, k) ==
    IF LookAheadLimit <= Len(df) - k - 1 THEN LookAheadLimit ELSE Len(df) - k - 1

\* variant: the slice starts at the month-end day itself
FutureBalances_inclusive(df, k) ==
    [j \in 1..LookAheadDays(df, k) |-> Row(df, k + j - 1).end_balance]

\* sim_results_df.iloc[i+1:i+1+look_ahead_days]['end_balance']
FutureBalances(df, k) ==
    [j \in 1..LookAheadDays(df, k) |-> Row(df, k + j).end_balance]

\* variant: the transfer is booked as an inflow
VirtualTx_positive(next_day, amount) ==
    [date |-> next_day, amount |-> amount, amount_dtype |-> "float",
     description |-> "Surplus Transfer", category |-> "System", forecast |-> "1"]

\* variant: the transfer is dated one day late
VirtualTx_nextday(next_day, amount) ==
    [date |-> next_day + 1, amount |-> -amount, amount_dtype |-> "float",
     description |-> "Surplus Transfer", category |-> "System", forecast |-> "1"]

\* variant: the transfer is dated on the month-end day
VirtualTx_daybefore(next_day, amount) ==
    [date |-> next_day - 1, amount |-> -amount, amount_dtype |-> "float",
     description |-> "Surplus Transfer", category |-> "System", forecast |-> "1"]

VirtualTx(next_day, amount) ==
    [date |-> next_day, amount |-> -amount, amount_dtype |-> "float",
     description |-> "Surplus Transfer", category |-> "System", forecast |-> "1"]

NoAdvisorCall ==
    [called |-> FALSE, month_end_balance |-> 0, target_balance |-> 0,
     future_30_day_balances |-> <<>>, result |-> 0]

AdvisorFrame(m, tb, f) ==
    [called |-> TRUE, month_end_balance |-> m, target_balance |-> tb,
     future_30_day_balances |-> f,
     result |-> calculate_intelligent_transfer(m, tb, f)]

NoReturn == [result |-> <<>>, amount |-> 0]

NoFirstReturn == [outcome |-> "none", value |-> NoReturn]

Init ==
    /\ call \in {"run_simulation_engine", "generate_simulation_report"}
    /\ args \in [start_balance : StartBalances,
                 target_balance : TargetBalances,
                 transactions_df : SeqsUpTo(Transactions \cup MalformedTransactions, MaxTx),
                 start_date : StartDates,
                 window_days : WindowDays]
    /\ pc = "idle"
    /\ transactions_df = <<>>
    /\ sim_results_df = <<>>
    /\ i = 0
    /\ recommended_transfer = 0
    /\ advisor = NoAdvisorCall
    /\ returned = NoReturn
    /\ days_computed = 0
    /\ engine_runs = 0
    /\ calls = 1
    /\ first_return = NoFirstReturn

\* a direct call of run_simulation_engine (lines 8-90) that returns
CallRunSimulationEngine ==
    /\ pc = "idle"
    /\ call = "run_simulation_engine"
    /\ ~EngineRaises(args.transactions_df, args.start_date, args.window_days)
    /\ transactions_df' = args.transactions_df
    /\ sim_results_df' = run_simulation_engine(args.start_balance,
            args.target_balance, args.transactions_df, args.start_date,
            args.window_days)
    /\ returned' = [result |-> sim_results_df', amount |-> 0]
    /\ days_computed' = Len(sim_results_df')
    /\ engine_runs' = engine_runs + 1
    /\ pc' = "done"
    /\ UNCHANGED <<call, args, i, recommended_transfer, advisor, calls,
                   first_return>>

\* a direct call of run_simulation_engine where pd.to_numeric (line 50)
\* raises on a day of the window
RunSimulationEngineRaises ==
    /\ pc = "idle"
    /\ call = "run_simulation_engine"
    /\ EngineRaises(args.transactions_df, args.start_date, args.window_days)
    /\ transactions_df' = args.transactions_df
    /\ days_computed' =
          DaysBeforeRaise(args.transactions_df, args.start_date, args.window_days)
    /\ engine_runs' = engine_runs + 1
    /\ pc' = "error"
    /\ UNCHANGED <<call, args, sim_results_df, i, recommended_transfer,
                   advisor, returned, calls, first_return>>

\* variant: the ledger is not copied, the amounts are converted in the
\* caller's frame
CallGenerateSimulationReport_nocopy ==
    /\ pc = "idle"
    /\ call = "generate_simulation_report"
    /\ ~ToNumericRaises(args.transactions_df)
    /\ args' = [args EXCEPT !.transactions_df = ToNumeric(@)]
    /\ transactions_df' = ToNumeric(args.transactions_df)
    /\ sim_results_df' = run_simulation_engine(args.start_balance,
            args.target_balance, transactions_df', args.start_date,
            args.window_days)
    /\ days_computed' = Len(sim_results_df')
    /\ engine_runs' = engine_runs + 1
    /\ recommended_transfer' = 0
    /\ i' = 0
    /\ pc' = "scan"
    /\ UNCHANGED <<call, advisor, returned, calls, first_return>>

\* lines 139-153: copy the ledger, convert the amounts, run the initial
\* simulation
CallGenerateSimulationReport ==
    /\ pc = "idle"
    /\ call = "generate_simulation_report"
    /\ ~ToNumericRaises(args.transactions_df)
    /\ transactions_df' = ToNumeric(args.transactions_df)
    /\ sim_results_df' = run_simulation_engine(args.start_balance,
            args.target_balance, transactions_df', args.start_date,
            args.window_days)
    /\ days_computed' = Len(sim_results_df')
    /\ engine_runs' = engine_runs + 1
    /\ recommended_transfer' = 0
    /\ i' = 0
    /\ pc' = "scan"
    /\ UNCHANGED <<call, args, advisor, returned, calls, first_return>>

\* lines 139-147: pd.to_numeric raises on the copied ledger
GenerateSimulationReportRaises ==
    /\ pc = "idle"
    /\ call = "generate_simulation_report"
    /\ ToNumericRaises(args.transactions_df)
    /\ transactions_df' = args.transactions_df
    /\ pc' = "error"
    /\ UNCHANGED <<call, args, sim_results_df, i, recommended_transfer,
                   advisor, returned, days_computed, engine_runs, calls,
                   first_return>>

\* lines 156-161: a pair of days in the same month
ScanNoBoundary ==
    /\ pc = "scan"
    /\ i < Len(sim_results_df) - 1
    /\ ~IsMonthBoundary(sim_results_df, i)
    /\ i' = i + 1
    /\ UNCHANGED <<call, args, pc, transactions_df, sim_results_df,
                   recommended_transfer, advisor, returned, days_computed,
                   engine_runs, calls, first_return>>

\* variant: the engine is run again although nothing was injected
ScanBoundaryNoTransfer_rerun ==
    /\ pc = "scan"
    /\ i < Len(sim_results_df) - 1
    /\ IsMonthBoundary(sim_results_df, i)
    /\ LET frame == AdvisorFrame(Row(sim_results_df, i).end_balance,
                                 args.target_balance,
                                 FutureBalances(sim_results_df, i))
       IN /\ ~(frame.result > 0)
          /\ advisor' = frame
          /\ recommended_transfer' = frame.result
    /\ sim_results_df' = run_simulation_engine(args.start_balance,
            args.target_balance, transactions_df, args.start_date,
            args.window_days)
    /\ engine_runs' = engine_runs + 1
    /\ i' = i + 1
    /\ UNCHANGED <<call, args, pc, transactions_df, returned, days_computed,
                   calls, first_return>>

\* lines 161-175: a month boundary where the advisor recommends nothing;
\* the break of line 197 is inside the if of line 175, so the loop goes on
ScanBoundaryNoTransfer ==
    /\ pc = "scan"
    /\ i < Len(sim_results_df) - 1
    /\ IsMonthBoundary(sim_results_df, i)
    /\ LET frame == AdvisorFrame(Row(sim_results_df, i).end_balance,
                                 args.target_balance,
                                 FutureBalances(sim_results_df, i))
       IN /\ ~(frame.result > 0)
          /\ advisor' = frame
          /\ recommended_transfer' = frame.result
    /\ i' = i + 1
    /\ UNCHANGED <<call, args, pc, transactions_df, sim_results_df, returned,
                   days_computed, engine_runs, calls, first_return>>

\* variant: no break after the injection, the scan goes on
ScanBoundaryTransfer_nobreak ==
    /\ pc = "scan"
    /\ i < Len(sim_results_df) - 1
    /\ IsMonthBoundary(sim_results_df, i)
    /\ LET frame == AdvisorFrame(Row(sim_results_df, i).end_balance,
                                 args.target_balance,
                                 FutureBalances(sim_results_df, i))
           next_month_first == Row(sim_results_df, i + 1).date
       IN /\ frame.result > 0
          /\ advisor' = frame
          /\ recommended_transfer' = frame.result
          /\ transactions_df' =
                Append(transactions_df, VirtualTx(next_month_first, frame.result))
    /\ sim_results_df' = run_simulation_engine(args.start_balance,
            args.target_balance, transactions_df', args.start_date,
            args.window_days)
    /\ days_computed' = Len(sim_results_df')
    /\ engine_runs' = engine_runs + 1
    /\ i' = i + 1
    /\ UNCHANGED <<call, args, pc, returned, calls, first_return>>

\* variant: the virtual transaction is appended to the caller's frame
ScanBoundaryTransfer_inplace ==
    /\ pc = "scan"
    /\ i < Len(sim_results_df) - 1
    /\ IsMonthBoundary(sim_results_df, i)
    /\ LET frame == AdvisorFrame(Row(sim_results_df, i).end_balance,
                                 args.target_balance,
                                 FutureBalances(sim_results_df, i))
           next_month_first == Row(sim_results_df, i + 1).date
       IN /\ frame.result > 0
          /\ advisor' = frame
          /\ recommended_transfer' = frame.result
          /\ transactions_df' =
                Append(transactions_df, VirtualTx(next_month_first, frame.result))
    /\ args' = [args EXCEPT !.transactions_df =
                    Append(@, VirtualTx(Row(sim_results_df, i + 1).date,
                                        recommended_transfer'))]
    /\ sim_results_df' = run_simulation_engine(args.start_balance,
            args.target_balance, transactions_df', args.start_date,
            args.window_days)
    /\ days_computed' = Len(sim_results_df')
    /\ engine_runs' = engine_runs + 1
    /\ returned' = [result |-> sim_results_df', amount |-> recommended_transfer']
    /\ pc' = "done"
    /\ UNCHANGED <<call, i, calls, first_return>>

\* lines 161-199: a month boundary where a transfer is recommended: inject
\* the virtual transaction, re-run the engine, break and return
ScanBoundaryTransfer ==
    /\ pc = "scan"
    /\ i < Len(sim_results_df) - 1
    /\ IsMonthBoundary(sim_results_df, i)
    /\ LET frame == AdvisorFrame(Row(sim_results_df, i).end_balance,
                                 args.target_balance,
                                 FutureBalances(sim_results_df, i))
           next_month_first == Row(sim_results_df, i + 1).date
       IN /\ frame.result > 0
          /\ advisor' = frame
          /\ recommended_transfer' = frame.result
          /\ transactions_df' =
                Append(transactions_df, VirtualTx(next_month_first, frame.result))
    /\ sim_results_df' = run_simulation_engine(args.start_balance,
            args.target_balance, transactions_df', args.start_date,
            args.window_days)
    /\ days_computed' = Len(sim_results_df')
    /\ engine_runs' = engine_runs + 1
    /\ returned' = [result |-> sim_results_df', amount |-> recommended_transfer']
    /\ pc' = "done"
    /\ UNCHANGED <<call, args, i, calls, first_return>>

\* line 199: the loop ran out of day pairs
ScanEnd ==
    /\ pc = "scan"
    /\ ~(i < Len(sim_results_df) - 1)
    /\ returned' = [result |-> sim_results_df, amount |-> recommended_transfer]
    /\ pc' = "done"
    /\ UNCHANGED <<call, args, transactions_df, sim_results_df, i,
                   recommended_transfer, advisor, days_computed, engine_runs,
                   calls, first_return>>

\* the caller invokes the same entry point a second time with the same
\* argument objects; every local of the first invocation is gone
CallAgain ==
    /\ pc \in {"done", "error"}
    /\ call \in {"run_simulation_engine", "generate_simulation_report"}
    /\ calls = 1
    /\ first_return' = [outcome |-> pc, value |-> returned]
    /\ calls' = calls + 1
    /\ pc' = "idle"
    /\ transactions_df' = <<>>
    /\ sim_results_df' = <<>>
    /\ i' = 0
    /\ recommended_transfer' = 0
    /\ advisor' = NoAdvisorCall
    /\ returned' = NoReturn
    /\ days_computed' = 0
    /\ engine_runs' = 0
    /\ UNCHANGED <<call, args>>

Next ==
    \/ CallRunSimulationEngine
    \/ RunSimulationEngineRaises
    \/ CallGenerateSimulationReport
    \/ GenerateSimulationReportRaises
    \/ ScanNoBoundary
    \/ ScanBoundaryNoTransfer
    \/ ScanBoundaryTransfer
    \/ ScanEnd
    \/ CallAgain

Spec == Init /\ [][Next]_vars

-----------------------------------------------------------------------------
(* calculate_intelligent_transfer on its own, over all small inputs *)

AdvisorInit ==
    /\ call = "calculate_intelligent_transfer"
    /\ args = [start_balance |-> 0, target_balance |-> 0,
               transactions_df |-> <<>>, start_date |-> 1, window_days |-> 0]
    /\ pc = "advisor"
    /\ transactions_df = <<>>
    /\ sim_results_df = <<>>
    /\ i = 0
    /\ recommended_transfer = 0
    /\ \E m \in 0..MaxBalance, tb \in 0..MaxBalance,
          f \in SeqsUpTo(0..MaxBalance, MaxFuture) \ {<<>>} :
            advisor = [called |-> FALSE, month_end_balance |-> m,
                       target_balance |-> tb, future_30_day_balances |-> f,
                       result |-> 0]
    /\ returned = NoReturn
    /\ days_computed = 0
    /\ engine_runs = 0
    /\ calls = 1
    /\ first_return = NoFirstReturn

\* lines 93-122
CallCalculateIntelligentTransfer ==
    /\ pc = "advisor"
    /\ advisor' = AdvisorFrame(advisor.month_end_balance, advisor.target_balance,
                               advisor.future_30_day_balances)
    /\ pc' = "done"
    /\ UNCHANGED <<call, args, transactions_df, sim_results_df, i,
                   recommended_transfer, returned, days_computed, engine_runs,
                   calls, first_return>>

AdvisorNext == CallCalculateIntelligentTransfer

AdvisorSpec == AdvisorInit /\ [][AdvisorNext]_vars

-----------------------------------------------------------------------------
(* Properties *)

IsReport == call = "generate_simulation_report"

Rows(df) == 1..Len(df)

\* the day pairs of a projection that cross a month boundary
Boundaries(df) == {k \in 0..(Len(df) - 2) : IsMonthBoundary(df, k)}

\* the rows of a ledger that carry the synthetic transfer
SurplusTransfers(df) == {k \in Rows(df) : df[k].description = "Surplus Transfer"}

\* the days of a projection whose summary lists the synthetic transfer
SurplusTransferDays(df) ==
    {k \in Rows(df) :
        \E n \in Rows(df[k].transactions_summary) :
            df[k].transactions_summary[n].description = "Surplus Transfer"}

Injected == IsReport /\ pc = "done" /\ SurplusTransfers(transactions_df) # {}

\* sum of the amounts of the rows of df whose index is in S
RECURSIVE SumOver(_, _)
SumOver(df, S) ==
    IF S = {} THEN 0
    ELSE LET k == CHOOSE n \in S : TRUE
         IN df[k].amount + SumOver(df, S \ {k})

Chained(df) ==
    /\ Len(df) > 0 => df[1].start_balance = args.start_balance
    /\ \A k \in 1..(Len(df) - 1) : df[k + 1].start_balance = df[k].end_balance

\* C1: balance chaining. In every projection (the engine's result, the
\* report's result, re-simulated or not) day 0 starts at the start_balance
\* argument and every later day starts at the previous day's end balance.
C1_BalanceChaining ==
    /\ Chained(sim_results_df)
    /\ pc = "done" => Chained(returned.result)

\* a re-simulated report whose balance moved before the last day
C1_Witness ==
    /\ Injected
    /\ Len(returned.result) >= 3
    /\ \E k \in 2..Len(returned.result) :
          /\ returned.result[k].start_balance # args.start_balance
          /\ returned.result[k].start_balance = returned.result[k - 1].end_balance

Closed(df) ==
    \A k \in Rows(df) : df[k].end_balance = df[k].start_balance + df[k].net_change

\* C2: arithmetic closure. Every row of every projection has
\* end_balance = start_balance + net_change.
C2_ArithmeticClosure ==
    /\ Closed(sim_results_df)
    /\ pc = "done" => Closed(returned.result)

\* a returned projection with a day of non-zero net change
C2_Witness ==
    /\ pc = "done"
    /\ \E k \in Rows(returned.result) :
          /\ returned.result[k].net_change # 0
          /\ returned.result[k].end_balance # returned.result[k].start_balance

AlertsRight(df) ==
    \A k \in Rows(df) :
        df[k].alert_type = "BELOW_TARGET" <=> df[k].end_balance < args.target_balance

\* C3: alert correctness. A row is BELOW_TARGET exactly when its end balance
\* is strictly below the target (equal to the target is OK), also in the
\* re-simulated projection.
C3_AlertCorrectness ==
    /\ AlertsRight(sim_results_df)
    /\ pc = "done" => AlertsRight(returned.result)
    /\ \A k \in Rows(sim_results_df) :
          sim_results_df[k].end_balance = args.target_balance
              => sim_results_df[k].alert_type = "OK"

\* a re-simulated projection with a day at the target, a day below and a
\* day above
C3_Witness ==
    /\ Injected
    /\ \E k \in Rows(returned.result) :
          /\ returned.result[k].end_balance = args.target_balance
          /\ returned.result[k].alert_type = "OK"
    /\ \E k \in Rows(returned.result) :
          returned.result[k].alert_type = "BELOW_TARGET"
    /\ \E k \in Rows(returned.result) :
          returned.result[k].end_balance > args.target_balance

\* C4: for a positive window_days the engine's result has exactly
\* window_days rows and row k is dated start_date + k.
C4_OneRowPerDay ==
    (pc \in {"scan", "done"} /\ args.window_days > 0) =>
        /\ Len(sim_results_df) = args.window_days
        /\ \A k \in 0..(args.window_days - 1) :
              Row(sim_results_df, k).date = args.start_date + k

\* a long window with transactions before, inside and after it
C4_Witness ==
    /\ pc = "done"
    /\ args.window_days > ShortWindow
    /\ Len(sim_results_df) = args.window_days
    /\ \E n \in Rows(args.transactions_df) :
          args.transactions_df[n].date < args.start_date
    /\ \E n \in Rows(args.transactions_df) :
          args.transactions_df[n].date >= args.start_date

InWindow(d) == args.start_date <= d /\ d < args.start_date + args.window_days

\* C5: the net change of a day is the sum of the amounts of exactly the
\* transactions dated that day; transactions dated outside the window count
\* for no day, so the last end balance is start_balance plus the sum of the
\* in-window amounts. (transactions_df is the ledger the engine was run on.)
C5_NetChangeIsDaySum ==
    pc \in {"scan", "done"} =>
        /\ \A k \in Rows(sim_results_df) :
              sim_results_df[k].net_change =
                  SumOver(transactions_df,
                          {n \in Rows(transactions_df) :
                              transactions_df[n].date = sim_results_df[k].date})
        /\ Len(sim_results_df) > 0 =>
              sim_results_df[Len(sim_results_df)].end_balance =
                  args.start_balance +
                  SumOver(transactions_df,
                          {n \in Rows(transactions_df) :
                              InWindow(transactions_df[n].date)})

\* an engine run with a transaction outside the window and a day inside it
\* whose net change is not zero
C5_Witness ==
    /\ pc = "done"
    /\ call = "run_simulation_engine"
    /\ \E n \in Rows(transactions_df) : ~InWindow(transactions_df[n].date)
    /\ \E k \in Rows(sim_results_df) : sim_results_df[k].net_change # 0

Surplus == advisor.month_end_balance - advisor.target_balance

\* C6: transfer non-negativity and bound. For a non-empty series of future
\* balances the advisor returns r with 0 <= r <= max(0, month_end - target).
C6_TransferBound ==
    (advisor.called /\ advisor.future_30_day_balances # <<>>) =>
        /\ 0 <= advisor.result
        /\ advisor.result <= Max(0, Surplus)

\* the holdback exceeds a positive surplus
C6_Witness ==
    /\ pc = "done"
    /\ advisor.called
    /\ Surplus > 0
    /\ \E n \in Rows(advisor.future_30_day_balances) :
          advisor.target_balance - advisor.future_30_day_balances[n] > Surplus
    /\ advisor.result = 0

\* the future balances are all at or above the target
NoDip ==
    \A n \in Rows(advisor.future_30_day_balances) :
        advisor.future_30_day_balances[n] >= advisor.target_balance

\* row n of the future balances is a lowest one
IsLowest(n) ==
    \A m \in Rows(advisor.future_30_day_balances) :
        advisor.future_30_day_balances[m] >= advisor.future_30_day_balances[n]

\* the dip of future balance n below the target
Dip(n) == advisor.target_balance - advisor.future_30_day_balances[n]

\* C7: the advisor equals the reference function: 0 when the surplus is not
\* positive; the full surplus when no future balance is below the target;
\* otherwise the surplus less the dip of the lowest future balance, and 0
\* when that dip is at least the surplus.
C7_ReferenceFunction ==
    advisor.called =>
        /\ Surplus <= 0 => advisor.result = 0
        /\ (Surplus > 0 /\ NoDip) => advisor.result = Surplus
        /\ (Surplus > 0 /\ ~NoDip) =>
              \A n \in Rows(advisor.future_30_day_balances) :
                  IsLowest(n) =>
                      advisor.result = (IF Dip(n) >= Surplus THEN 0 ELSE Surplus - Dip(n))

\* a partial transfer: the dip is not at the first future day and is
\* smaller than the surplus
C7_Witness ==
    /\ pc = "done"
    /\ advisor.called
    /\ Surplus > 0
    /\ Len(advisor.future_30_day_balances) >= 2
    /\ advisor.future_30_day_balances[1] >= advisor.target_balance
    /\ ~NoDip
    /\ advisor.result > 0
    /\ advisor.result < Surplus

\* C8: single injection. At most one synthetic Surplus Transfer is appended
\* to the ledger in a call, whatever the number of month boundaries, so at
\* most one day of the result lists a Surplus Transfer.
C8_SingleInjection ==
    /\ Cardinality(SurplusTransfers(transactions_df)) <= 1
    /\ Len(transactions_df) <= Len(args.transactions_df) + 1
    /\ Cardinality(SurplusTransferDays(sim_results_df)) <= 1
    /\ pc = "done" => Cardinality(SurplusTransferDays(returned.result)) <= 1

\* a transfer was injected in a window with two month boundaries, and the
\* month-end balance at the later boundary is still above the target
C8_Witness ==
    /\ Injected
    /\ Cardinality(SurplusTransferDays(returned.result)) = 1
    /\ Cardinality(Boundaries(returned.result)) >= 2
    /\ \E k \in Boundaries(returned.result) :
          /\ k > i
          /\ Row(returned.result, k).end_balance > args.target_balance

\* the projection of the caller's own transactions
InitialProjection ==
    run_simulation_engine(args.start_balance, args.target_balance,
                          args.transactions_df, args.start_date, args.window_days)

FirstBoundary(df) == CHOOSE k \in Boundaries(df) : \A j \in Boundaries(df) : k <= j

\* C9: only the first month boundary is processed. The returned amount is
\* the advisor's result at the first boundary of the initial projection,
\* and when that result is 0 the initial projection is returned with
\* amount 0, even if a later boundary has a surplus.
C9_FirstBoundaryOnly ==
    (IsReport /\ pc = "done" /\ Boundaries(InitialProjection) # {}) =>
        LET b == FirstBoundary(InitialProjection)
            r == calculate_intelligent_transfer(
                    Row(InitialProjection, b).end_balance, args.target_balance,
                    FutureBalances(InitialProjection, b))
        IN /\ returned.amount = r
           /\ r = 0 => returned.result = InitialProjection

NoBoundaryInWindow ==
    \A k \in 0..(args.window_days - 2) :
        MonthOf(args.start_date + k) = MonthOf(args.start_date + k + 1)

\* C10: when no two consecutive days of the window are in different months
\* (window_days = 1 included), the report returns amount 0 and the
\* projection of the original transactions.
C10_NoBoundary ==
    (IsReport /\ pc = "done" /\ NoBoundaryInWindow) =>
        /\ returned.amount = 0
        /\ returned.result = InitialProjection

\* a window of several days inside one month that ends above the target
C10_Witness ==
    /\ IsReport
    /\ pc = "done"
    /\ NoBoundaryInWindow
    /\ args.window_days >= 2
    /\ Len(returned.result) = args.window_days
    /\ \A k \in Rows(returned.result) :
          returned.result[k].end_balance > args.target_balance
    /\ \E k \in Rows(returned.result) : returned.result[k].net_change # 0

\* the ledger copy generate_simulation_report starts from
ConvertedLedger == ToNumeric(args.transactions_df)

Returned(k) == Row(returned.result, k)

\* C11: when the amount r recommended at boundary (day[i], day[i+1]) is
\* positive, exactly one transaction is appended, dated day[i+1] (a first
\* day of a month) with amount -r; the returned result is the engine's
\* projection of the original transactions plus that one, and the returned
\* amount is r.
C11_InjectedTransaction ==
    (IsReport /\ pc = "done" /\ returned.amount > 0) =>
        LET tx == transactions_df[Len(transactions_df)]
            initial == InitialProjection
        IN /\ i \in Boundaries(initial)
           /\ advisor.called
           /\ advisor.result = returned.amount
           /\ transactions_df = Append(ConvertedLedger, tx)
           /\ tx.date = Row(initial, i + 1).date
           /\ MonthOf(tx.date - 1) # MonthOf(tx.date)
           /\ tx.amount = -returned.amount
           /\ tx.description = "Surplus Transfer"
           /\ returned.result =
                 run_simulation_engine(args.start_balance, args.target_balance,
                     Append(ConvertedLedger, tx), args.start_date,
                     args.window_days)

\* a transfer injected on a day that already had a transaction of the
\* caller, at a boundary that is not the first day pair
C11_Witness ==
    /\ Injected
    /\ i > 0
    /\ returned.amount > 0
    /\ \E n \in Rows(args.transactions_df) :
          args.transactions_df[n].date = Returned(i + 1).date
    /\ Len(Returned(i + 1).transactions_summary) >= 2

\* the day offsets of the look-ahead window of the boundary at i
LookAhead ==
    {k \in (i + 1)..(args.window_days - 1) : k <= i + 30}

\* C12 as claimed: after an injection every look-ahead day that was at or
\* above the target in the initial projection is still at or above it.
C12_HoldbackSufficient ==
    Injected =>
        LET initial == InitialProjection IN
        \A k \in LookAhead :
            Row(initial, k).end_balance >= args.target_balance =>
                /\ Returned(k).end_balance >= args.target_balance
                /\ Returned(k).alert_type = "OK"

\* C12 amended: after an injection of r a look-ahead day is at or above the
\* target (alert OK) in the returned result exactly when its end balance in
\* the initial projection was at least target_balance + r.
C12_HoldbackAmended ==
    Injected =>
        LET initial == InitialProjection IN
        \A k \in LookAhead :
            (/\ Returned(k).end_balance >= args.target_balance
             /\ Returned(k).alert_type = "OK")
                <=> Row(initial, k).end_balance
                        >= args.target_balance + returned.amount

\* an injection after which one look-ahead day stays at or above the target
\* and another, which was at or above it, falls below
C12_Witness ==
    /\ Injected
    /\ LET initial == InitialProjection
       IN /\ \E k \in LookAhead :
                Row(initial, k).end_balance
                    >= args.target_balance + returned.amount
          /\ \E k \in LookAhead :
                /\ Row(initial, k).end_balance >= args.target_balance
                /\ Returned(k).alert_type = "BELOW_TARGET"

\* the boundary at which the advisor was last called
LastAdvisorIndex(initial) ==
    IF pc = "done" /\ returned.amount > 0 THEN i
    ELSE LET passed == {k \in Boundaries(initial) : k < i}
         IN CHOOSE k \in passed : \A j \in passed : j <= k

\* C13: every advisor call made at a boundary (day[i], day[i+1]) gets
\* day[i].end_balance of the initial projection as month_end_balance and the
\* end balances of days i+1 .. i+min(30, window_days-i-1) of the initial
\* projection as future balances: between 1 and 30 values, from day[i+1] on.
C13_AdvisorArguments ==
    (IsReport /\ advisor.called) =>
        LET initial == InitialProjection
            k == LastAdvisorIndex(initial)
            n == IF 30 < args.window_days - k - 1 THEN 30
                 ELSE args.window_days - k - 1
        IN /\ k \in Boundaries(initial)
           /\ advisor.month_end_balance = Row(initial, k).end_balance
           /\ advisor.target_balance = args.target_balance
           /\ Len(advisor.future_30_day_balances) = n
           /\ 1 <= n /\ n <= 30
           /\ \A j \in 1..n :
                 advisor.future_30_day_balances[j] = Row(initial, k + j).end_balance

\* a call whose look-ahead is cut at 30 days and whose first future balance
\* differs from the month-end balance
C13_Witness ==
    /\ IsReport
    /\ advisor.called
    /\ Len(advisor.future_30_day_balances) = 30
    /\ args.window_days - LastAdvisorIndex(InitialProjection) - 1 > 30
    /\ advisor.future_30_day_balances[1] # advisor.month_end_balance

\* the positions of the system note in a summary
NotePositions(summary) == {n \in Rows(summary) : summary[n].kind = "system"}

NoteWhenAlert(row) ==
    /\ NotePositions(row.transactions_summary) # {}
          <=> row.alert_type = "BELOW_TARGET"
    /\ NotePositions(row.transactions_summary)
          \subseteq {Len(row.transactions_summary)}

\* C14 as claimed: the note is there exactly on BELOW_TARGET days, it is the
\* last fragment, and the amount it shows is target_balance - end_balance,
\* strictly positive.
C14_SystemNote ==
    \A k \in Rows(sim_results_df) :
        LET row == sim_results_df[k]
            summary == row.transactions_summary
        IN /\ NoteWhenAlert(row)
           /\ NotePositions(summary) # {} =>
                 /\ PatternMatches(summary[Len(summary)].amount)
                 /\ ParseAmount(summary[Len(summary)].amount)
                       = args.target_balance - row.end_balance
                 /\ ParseAmount(summary[Len(summary)].amount) > 0

\* C14 amended: the note is there exactly on BELOW_TARGET days, it is the
\* last fragment, target_balance - end_balance is strictly positive, and the
\* amount shown is that shortfall rounded to two decimals: unsigned, within
\* half a cent of the shortfall, and 0.00 for a shortfall under half a cent.
C14_SystemNoteAmended ==
    \A k \in Rows(sim_results_df) :
        LET row == sim_results_df[k]
            summary == row.transactions_summary
            shortfall == args.target_balance - row.end_balance
        IN /\ NoteWhenAlert(row)
           /\ NotePositions(summary) # {} =>
                 /\ shortfall > 0
                 /\ PatternMatches(summary[Len(summary)].amount)
                 /\ ParseAmount(summary[Len(summary)].amount) - shortfall \in -2..2
                 /\ ParseAmount(summary[Len(summary)].amount) >= 0

\* a day whose note follows a transaction fragment and shows 0.00 for a
\* shortfall under half a cent, and a day whose note stands alone
C14_Witness ==
    /\ pc = "done"
    /\ \E k \in Rows(sim_results_df) :
          LET summary == sim_results_df[k].transactions_summary
          IN /\ Len(summary) >= 2
             /\ summary[Len(summary)].kind = "system"
             /\ ParseAmount(summary[Len(summary)].amount) = 0
    /\ \E k \in Rows(sim_results_df) :
          LET summary == sim_results_df[k].transactions_summary
          IN /\ Len(summary) = 1
             /\ summary[1].kind = "system"

\* C15: a call with window_days <= 0 fails with a validation error before
\* any day is computed and returns no result.
C15_WindowValidation ==
    args.window_days <= 0 =>
        /\ pc # "done"
        /\ pc = "error" => days_computed = 0

\* C16: a malformed amount anywhere in the ledger aborts the call before any
\* simulation day is computed; no result is returned and the row is never
\* silently skipped. (Stated for a positive window_days, the case the
\* engine accepts.)
C16_FailFast ==
    (ToNumericRaises(args.transactions_df) /\ args.window_days > 0) =>
        /\ pc # "done"
        /\ pc = "error" => days_computed = 0

\* C17: neither entry point modifies the caller's transaction set: its
\* length, order, dates and amounts never change and it never gains a
\* Surplus Transfer row.
C17_NoMutation == [][args'.transactions_df = args.transactions_df]_vars

\* a report that injected a transfer into its own copy while the caller's
\* rows are as they were handed in
C17_Witness ==
    /\ Injected
    /\ Len(args.transactions_df) >= 1
    /\ Len(transactions_df) = Len(args.transactions_df) + 1
    /\ SurplusTransfers(args.transactions_df) = {}
    /\ \A n \in Rows(args.transactions_df) :
          args.transactions_df[n].amount_dtype = "str"
    /\ \A n \in Rows(transactions_df) : transactions_df[n].amount_dtype = "float"

\* C18: determinism. A second call with the same arguments ends the same
\* way as the first and returns the same result and amount.
C18_Determinism ==
    (calls = 2 /\ pc \in {"done", "error"}) =>
        /\ first_return.outcome = pc
        /\ first_return.value = returned

\* a second report call that injected a transfer, as the first one did
C18_Witness ==
    /\ calls = 2
    /\ Injected
    /\ first_return.outcome = "done"
    /\ first_return.value.amount > 0

\* C19: within one report call the engine runs once when the returned amount
\* is 0 and twice when it is positive; the second run is a fresh run from
\* start_balance at day 0 on the ledger with the one appended transaction.
C19_EngineRuns ==
    (IsReport /\ pc = "done") =>
        /\ returned.amount = 0 => engine_runs = 1
        /\ returned.amount > 0 =>
              /\ engine_runs = 2
              /\ Len(transactions_df) = Len(ConvertedLedger) + 1
              /\ SubSeq(transactions_df, 1, Len(ConvertedLedger)) = ConvertedLedger
              /\ Len(returned.result) > 0
              /\ returned.result[1].start_balance = args.start_balance
              /\ returned.result =
                    run_simulation_engine(args.start_balance,
                        args.target_balance, transactions_df, args.start_date,
                        args.window_days)

\* a report that ran the engine twice although an earlier boundary had
\* recommended nothing
C19_Witness ==
    /\ IsReport
    /\ pc = "done"
    /\ returned.amount > 0
    /\ engine_runs = 2
    /\ \E k \in Boundaries(InitialProjection) : k < i

\* C20: after an injection of r dated day[i+1], the rows before day[i+1]
\* are those of the initial projection, the net change of day[i+1] is lower
\* by r, and every end balance from day[i+1] on is lower by exactly r.
C20_InjectionEffect ==
    Injected =>
        LET initial == InitialProjection IN
        /\ Len(returned.result) = Len(initial)
        /\ \A k \in 0..(Len(returned.result) - 1) :
              /\ k <= i => Returned(k) = Row(initial, k)
              /\ k = i + 1 =>
                    Returned(k).net_change
                        = Row(initial, k).net_change - returned.amount
              /\ k > i + 1 => Returned(k).net_change = Row(initial, k).net_change
              /\ k >= i + 1 =>
                    Returned(k).end_balance
                        = Row(initial, k).end_balance - returned.amount

\* an injection in the middle of a window, on a day that had a net change
C20_Witness ==
    /\ Injected
    /\ i >= 1
    /\ Len(returned.result) > i + 2
    /\ Returned(i + 1).net_change # -returned.amount
    /\ Returned(i).end_balance # args.start_balance

\* C21: whenever a transfer is reported (recommended amount > 0), the date
\* printed for the virtual transfer, the first day of the month following
\* the month of start_date, is the date of the injected Surplus Transfer.
C21_PrintedTransferDate ==
    (IsReport /\ pc = "done" /\ returned.amount > 0) =>
        /\ SurplusTransfers(transactions_df) # {}
        /\ \A n \in SurplusTransfers(transactions_df) :
              transactions_df[n].date = PrintedTransferDate(args.start_date)

====
